---- MODULE Spec2Model ----
(***************************************************************************)
(* Model of the random-parameter-set randomizer                            *)
(* (app/randomizers/random-parameter-set.js): the weighted draw            *)
(* getRandomElement, the resolution of parameterSetWeights (absent, flat   *)
(* list, or list of age brackets), and the loop that merges, substitutes   *)
(* and resolves every template of frameList; and of the route mixin        *)
(* (app/mixins/frame-player-route.js): the promise chain of model(), one   *)
(* action per callback, for calls of model() that may overlap.             *)
(*                                                                         *)
(* Indices are 0-based as in the JavaScript source; a JavaScript array is  *)
(* a TLA+ sequence, so arr[i] of the source is arr[i + 1] here.            *)
(***************************************************************************)
EXTENDS Integers, Sequences, FiniteSets, TLC

(***************************************************************************)
(* Bounds of the model.                                                    *)
(***************************************************************************)
\* largest number of parameter sets in a frameConfig
MaxSets == 2
\* largest single weight
MaxWeight == 2
\* largest number of age brackets in parameterSetWeights
MaxBrackets == 2
\* largest minAge / maxAge of a bracket, in days
MaxAge == 1
\* largest number of templates in frameList
MaxFrames == 2
\* largest number of frames resolveFrame returns for one template
MaxOut == 2
\* Math.random() is modelled as rnd / RandDen for rnd in 0 .. RandDen - 1
RandDen == 4
\* largest number of milliseconds between two reads of the clock in one call
MaxTick == 1

\* length of the list parameter STIMLIST of every parameter set
MaxStim == 2
\* largest number of calls of the route's model hook
MaxInvocations == 2

\* milliseconds per day, the divisor (1000 * 60 * 60 * 24) of line 369
DayMs == 1000 * 60 * 60 * 24

\* the value of new Date().getTime() when a call starts (3 days after the epoch)
NowBase == 3 * DayMs

(***************************************************************************)
(* JSON values: a string, a number, an object (a function from keys to     *)
(* values) or an array (a sequence of values).                             *)
(***************************************************************************)
Str(s) == [t |-> "str", v |-> s]
Num(n) == [t |-> "num", v |-> n]
Obj(f) == [t |-> "obj", v |-> f]
Lst(q) == [t |-> "list", v |-> q]

\* the object {}
EmptyObj == [k \in {} |-> Str("")]

\* sum of the defined elements of a sequence of numbers: weights.reduce((a, b) => a + b, 0)
RECURSIVE SumSeq(_)
SumSeq(s) == IF s = <<>> THEN 0 ELSE s[1] + SumSeq(Tail(s))

\* mutation of Ones: an array one element short
OnesOffByOne(n) == [i \in 1..(n - 1) |-> 1]

\* new Array(n).fill(1)
Ones(n) == [i \in 1..n |-> 1]

(***************************************************************************)
(* An optional argument of a JavaScript function.                          *)
(***************************************************************************)
Undefined == [some |-> FALSE, val |-> <<>>]
Some(x) == [some |-> TRUE, val |-> x]

(***************************************************************************)
(* getRandomElement(arr, weights), lines 161-173.  rnd / RandDen is the    *)
(* value Math.random() returned, so randPos = rnd * totalProb / RandDen     *)
(* and randPos <= weightSum is rnd * totalProb <= weightSum * RandDen.      *)
(* A weight missing from a too short list is undefined in the source: the  *)
(* running total becomes NaN and every later comparison is false.          *)
(* The result is [found |-> TRUE, index |-> i, elem |-> arr[i]], or        *)
(* NoElement when the loop falls through (the function returns undefined). *)
(***************************************************************************)
NoElement == [found |-> FALSE, index |-> 0 - 1, elem |-> EmptyObj]

\* mutation of WeightLoop: the comparison of line 169 made strict
RECURSIVE WeightLoopStrict(_, _, _, _, _, _)
WeightLoopStrict(arr, weights, totalProb, rnd, i, weightSum) ==
    IF ~(i < Len(arr)) THEN NoElement
    ELSE IF i + 1 > Len(weights) THEN NoElement
    ELSE LET newSum == weightSum + weights[i + 1]
         IN  IF rnd * totalProb < newSum * RandDen
             THEN [found |-> TRUE, index |-> i, elem |-> arr[i + 1]]
             ELSE WeightLoopStrict(arr, weights, totalProb, rnd, i + 1, newSum)

\* mutation of WeightLoop: the index returned on line 170 counted from 1
RECURSIVE WeightLoopOneBased(_, _, _, _, _, _)
WeightLoopOneBased(arr, weights, totalProb, rnd, i, weightSum) ==
    IF ~(i < Len(arr)) THEN NoElement
    ELSE IF i + 1 > Len(weights) THEN NoElement
    ELSE LET newSum == weightSum + weights[i + 1]
         IN  IF rnd * totalProb <= newSum * RandDen
             THEN [found |-> TRUE, index |-> i + 1, elem |-> arr[i + 1]]
             ELSE WeightLoopOneBased(arr, weights, totalProb, rnd, i + 1, newSum)

RECURSIVE WeightLoop(_, _, _, _, _, _)
WeightLoop(arr, weights, totalProb, rnd, i, weightSum) ==
    IF ~(i < Len(arr)) THEN NoElement
    ELSE IF i + 1 > Len(weights) THEN NoElement
    ELSE LET newSum == weightSum + weights[i + 1]
         IN  IF rnd * totalProb <= newSum * RandDen
             THEN [found |-> TRUE, index |-> i, elem |-> arr[i + 1]]
             ELSE WeightLoop(arr, weights, totalProb, rnd, i + 1, newSum)

getRandomElement(arr, weightsArg, rnd) ==
    LET weights == IF weightsArg.some THEN weightsArg.val ELSE Ones(Len(arr))
        totalProb == SumSeq(weights)
    IN  WeightLoop(arr, weights, totalProb, rnd, 0, 0)

(***************************************************************************)
(* Inputs: the frameConfig objects the model starts from.                  *)
(***************************************************************************)
ImageNames == <<"toad.jpg", "dog.jpg", "cat.jpg", "owl.jpg">>

StimNames == <<"a.mp3", "b.mp3", "c.mp3", "d.mp3">>

\* the list parameter of the k-th parameter set: MaxStim distinct stimuli
StimList(k) == [i \in 1..MaxStim |-> Str(StimNames[((i + k) % Len(StimNames)) + 1])]

\* the k-th parameter set of the configuration
ParameterSetAt(k) ==
    ("LEFTIMAGE" :> Str(ImageNames[k]) @@ "IMAGESIZE" :> Num(250 + k)
       @@ "STIMLIST" :> Lst(StimList(k)))

\* the templates a frameList is taken from
AllFrames == <<
    ("leftImage" :> Str("LEFTIMAGE") @@ "rightImage" :> Str("frog.jpg")),
    ("kind" :> Str("B")
       @@ "audioTypes" :> Lst(<<Str("wav")>>)
       @@ "parentTextBlock" :> Obj("text" :> Str("LEFTIMAGE")
                                     @@ "css" :> Obj("color" :> Str("blue")))),
    ("size" :> Num(10) @@ "parentTextBlock" :> Str("none")
       @@ "audioTypes" :> Obj("first" :> Str("mp3"))) >>

CommonChoices == {
    EmptyObj,
    ("kind" :> Str("A") @@ "size" :> Str("IMAGESIZE")
       @@ "audioTypes" :> Lst(<<Str("mp3"), Str("ogg")>>)
       @@ "parentTextBlock" :> Obj("title" :> Str("Parents!") @@ "text" :> Str("common")
                                     @@ "css" :> Obj("color" :> Str("red") @@ "font" :> Str("big")))) }

\* templates and common properties that use the selector STIMLIST#UNIQ
UniqFrames == <<
    ("images" :> Lst(<<Str("STIMLIST#UNIQ"), Str("STIMLIST#UNIQ")>>) @@ "kind" :> Str("B")),
    ("leftImage" :> Str("LEFTIMAGE")
       @@ "parentTextBlock" :> Obj("text" :> Str("STIMLIST#UNIQ"))),
    ("leftImage" :> Str("STIMLIST#UNIQ") @@ "rightImage" :> Str("STIMLIST#UNIQ")) >>

UniqCommonChoices == { EmptyObj, ("audio" :> Str("STIMLIST#UNIQ")) }

\* sequences over S of length lo .. hi
SeqsOf(S, lo, hi) == UNION { [1..n -> S] : n \in lo..hi }

\* the three shapes of frameConfig.parameterSetWeights
Absent == [kind |-> "absent", w |-> <<>>, b |-> <<>>]
Flat(ws) == [kind |-> "flat", w |-> ws, b |-> <<>>]
Brackets(bs) == [kind |-> "brackets", w |-> <<>>, b |-> bs]

FlatChoices == SeqsOf(0..MaxWeight, 0, MaxSets + 1)

\* the weight lists an age bracket may carry
BracketWeightChoices == { <<1, 0>>, <<0, 1>> }

BracketChoices ==
    { [minAge |-> lo, maxAge |-> hi, weights |-> ws] :
        lo \in 0..MaxAge, hi \in 0..MaxAge, ws \in BracketWeightChoices }

WeightSpecChoices ==
    {Absent} \cup { Flat(ws) : ws \in FlatChoices }
             \cup { Brackets(bs) : bs \in SeqsOf({ br \in BracketChoices : br.minAge <= br.maxAge }, 1, MaxBrackets) }

\* the frameConfig objects with the given common properties, numbers of templates,
\* numbers of parameter sets and weight fields
ConfigsOf(commons, frameCounts, setCounts, weightSpecs) ==
    { [commonFrameProperties |-> c,
       frameList |-> SubSeq(AllFrames, 1, nf),
       parameterSets |-> [k \in 1..ns |-> ParameterSetAt(k)],
       parameterSetWeights |-> ws] :
        c \in commons, nf \in frameCounts, ns \in setCounts, ws \in weightSpecs }

FrameConfigs == ConfigsOf(CommonChoices, 1..MaxFrames, 1..MaxSets, WeightSpecChoices)

\* configurations for the weighted draw: every flat weight list (of the right
\* length, too short or too long) or none, one template
DrawConfigs ==
    ConfigsOf({EmptyObj}, {1}, 1..MaxSets, {Absent} \cup { Flat(ws) : ws \in FlatChoices })

\* configurations for the age brackets: every list of brackets, one template
AgeConfigs ==
    ConfigsOf({EmptyObj}, {1}, {MaxSets},
              { Brackets(bs) : bs \in SeqsOf({ br \in BracketChoices : br.minAge <= br.maxAge }, 1, MaxBrackets) })

\* configurations for the expansion loop: every frameList and common properties,
\* weights absent or a flat list of zeros and ones
ExpandConfigs ==
    ConfigsOf(CommonChoices, 1..MaxFrames, 1..MaxSets,
              {Absent} \cup { Flat(ws) : ws \in SeqsOf(0..1, 0, MaxSets + 1) })

\* configurations for the selector #UNIQ: templates that refer to STIMLIST#UNIQ,
\* no weights
UniqConfigs ==
    { [commonFrameProperties |-> c,
       frameList |-> SubSeq(UniqFrames, 1, nf),
       parameterSets |-> [k \in 1..ns |-> ParameterSetAt(k)],
       parameterSetWeights |-> Absent] :
        c \in UniqCommonChoices, nf \in 1..MaxFrames, ns \in 1..MaxSets }

(***************************************************************************)
(* The child argument: what child.get('birthday') does.  "nochild" is a    *)
(* call without a child (child.get throws a TypeError), "throws" an        *)
(* accessor that throws, and the other kinds are the value returned.       *)
(***************************************************************************)
InvalidBirthdays == {"nochild", "throws", "undefined", "null", "NaN"}

Children ==
    { [kind |-> k, ms |-> 0] : k \in InvalidBirthdays }
      \cup { [kind |-> "date", ms |-> NowBase - d * DayMs] : d \in (0 - 1)..(MaxAge + 1) }

(***************************************************************************)
(* Resolution of the weights, lines 352-383.                               *)
(***************************************************************************)
WarnBirthday == "No child birthday available for randomization. Using today's date."
WarnNoRange == "Child does not fall into any designated age range for randomization. Weighting parameter sets equally."
LogAgeBased == "Using age-based randomization parameters"

\* childDOB after lines 358-368: now is the clock read on lines 363 and 367.
\* null is not NaN (isNaN(null) is false) and is 0 in the subtraction of line 369.
ChildDOB(child, now) ==
    CASE child.kind \in {"nochild", "throws"} -> now
      [] child.kind \in {"undefined", "NaN"} -> now
      [] child.kind = "null" -> 0
      [] OTHER -> child.ms

\* does lines 362 or 366 log the birthday warning
BirthdayWarned(child) == child.kind \in {"nochild", "throws", "undefined", "NaN"}

\* element.minAge <= childAgeDays && childAgeDays <= element.maxAge, line 373,
\* with childAgeDays = ageMs / DayMs
InBracket(element, ageMs) ==
    element.minAge * DayMs <= ageMs /\ ageMs <= element.maxAge * DayMs

\* mutation of FindBracket: the last bracket that contains the age
RECURSIVE FindLastBracket(_, _, _)
FindLastBracket(brackets, ageMs, i) ==
    IF i > Len(brackets) THEN 0
    ELSE LET later == FindLastBracket(brackets, ageMs, i + 1)
         IN  IF later # 0 THEN later
             ELSE IF InBracket(brackets[i], ageMs) THEN i ELSE 0

\* Array.prototype.find, line 372: position (1-based) of the first bracket
\* from position i on that contains the age, or 0
RECURSIVE FindBracket(_, _, _)
FindBracket(brackets, ageMs, i) ==
    IF i > Len(brackets) THEN 0
    ELSE IF InBracket(brackets[i], ageMs) THEN i
    ELSE FindBracket(brackets, ageMs, i + 1)

\* frameConfig.hasOwnProperty('parameterSetWeights'), line 353
HasOwnWeights(cfg) == cfg.parameterSetWeights.kind # "absent"

\* typeof frameConfig.parameterSetWeights[0] === 'object', line 356
FirstIsObject(cfg) ==
    cfg.parameterSetWeights.kind = "brackets" /\ Len(cfg.parameterSetWeights.b) > 0

\* the value childAgeDays * DayMs of line 369; now2 is the clock read on that line
ChildAgeMs(child, now, now2) == now2 - ChildDOB(child, now)

\* lines 352-383: the new value of frameConfig.parameterSetWeights and the console output
ResolveWeights(cfg, child, now, now2) ==
    LET equalWeights == Ones(Len(cfg.parameterSets))
    IN  IF ~HasOwnWeights(cfg)
        THEN [psw |-> Flat(equalWeights), console |-> <<>>]
        ELSE IF ~FirstIsObject(cfg)
        THEN [psw |-> cfg.parameterSetWeights, console |-> <<>>]
        ELSE LET ageMs == ChildAgeMs(child, now, now2)
                 found == FindBracket(cfg.parameterSetWeights.b, ageMs, 1)
                 warned == IF BirthdayWarned(child) THEN <<WarnBirthday>> ELSE <<>>
             IN  IF found # 0
                 THEN [psw |-> Flat(cfg.parameterSetWeights.b[found].weights),
                       console |-> warned \o <<LogAgeBased>>]
                 ELSE [psw |-> Flat(equalWeights),
                       console |-> warned \o <<WarnNoRange>>]

(***************************************************************************)
(* Ember.$.extend(true, target, src), lines 401 and 405: the deep merge of *)
(* the object src into the object target.  A key of src overrides the key  *)
(* of target; when the value in src is an object (an array) it is merged,  *)
(* key by key (index by index), into a copy of the object (array) target   *)
(* holds for that key, or into {} ([]) when target holds none there.       *)
(***************************************************************************)
\* mutation of extend: the merge without the deep flag, a key of src replaces
\* the value of target as a whole
extendShallow(target, src) ==
    [name \in (DOMAIN target) \cup (DOMAIN src) |->
        IF name \notin DOMAIN src THEN target[name] ELSE src[name]]

RECURSIVE extend(_, _)
extend(target, src) ==
    [name \in (DOMAIN target) \cup (DOMAIN src) |->
        IF name \notin DOMAIN src THEN target[name]
        ELSE IF src[name].t \in {"obj", "list"}
             THEN LET clone == IF name \in DOMAIN target /\ target[name].t = src[name].t
                               THEN target[name].v
                               ELSE EmptyObj
                  IN  [t |-> src[name].t, v |-> extend(clone, src[name].v)]
             ELSE src[name]]

(***************************************************************************)
(* The Substituter of line 392 and substituter.replaceValues(thisFrame,    *)
(* parameterSet) of line 409.  The traversal visits objects key by key and *)
(* arrays element by element and makes a new structure.  A string leaf     *)
(* that is the name of a parameter of the set is replaced by the           *)
(* parameter's value; a string leaf NAME#UNIQ is replaced by the next      *)
(* element of a permutation of the list NAME, made when NAME#UNIQ is first *)
(* met and kept in the substituter, wrapping around at its end; every      *)
(* other leaf is kept.  (The templates of this model use no other          *)
(* selector.)                                                              *)
(***************************************************************************)
\* the permutations of 1..n
Perms(n) == { p \in [1..n -> 1..n] : \A i, j \in 1..n : p[i] = p[j] => i = j }

\* the strings of the form NAME#UNIQ, with their NAME
UniqRefs == ("STIMLIST#UNIQ" :> "STIMLIST")

\* the order in which the keys of an object are visited (insertion order)
KeyOrder == << "audio", "images", "leftImage", "rightImage", "kind", "size", "audioTypes",
               "first", "parentTextBlock", "title", "text", "css", "color", "font" >>

OrderedKeys(obj) == SelectSeq(KeyOrder, LAMBDA k : k \in DOMAIN obj)

\* a substituter that has met no NAME#UNIQ yet
NewSubstituter == EmptyObj

\* a string leaf s; st maps the names met so far to their permutation and cursor,
\* shuffle is the permutation the random source yields if one is made here
replaceLeaf(s, rep, st, shuffle) ==
    IF s \in DOMAIN rep THEN [val |-> rep[s], st |-> st]
    ELSE IF s \in DOMAIN UniqRefs /\ UniqRefs[s] \in DOMAIN rep /\ rep[UniqRefs[s]].t = "list"
    THEN LET name == UniqRefs[s]
             list == rep[name].v
             cur == IF name \in DOMAIN st THEN st[name]
                    ELSE [permutation |-> shuffle, cursor |-> 0]
         IN  [val |-> list[cur.permutation[cur.cursor + 1]],
              st |-> (name :> [cur EXCEPT !.cursor = (@ + 1) % Len(list)]) @@ st]
    ELSE [val |-> Str(s), st |-> st]

RECURSIVE replaceValue(_, _, _, _), replaceEach(_, _, _, _, _, _, _)
\* the members keys of container, in order, appended to acc
replaceEach(container, keys, isList, rep, st, shuffle, acc) ==
    IF keys = <<>> THEN [val |-> acc, st |-> st]
    ELSE LET r == replaceValue(container[Head(keys)], rep, st, shuffle)
         IN  replaceEach(container, Tail(keys), isList, rep, r.st, shuffle,
                         IF isList THEN Append(acc, r.val) ELSE (Head(keys) :> r.val) @@ acc)

replaceValue(val, rep, st, shuffle) ==
    IF val.t = "obj"
    THEN LET r == replaceEach(val.v, OrderedKeys(val.v), FALSE, rep, st, shuffle, EmptyObj)
         IN  [val |-> Obj(r.val), st |-> r.st]
    ELSE IF val.t = "list"
    THEN LET r == replaceEach(val.v, [i \in 1..Len(val.v) |-> i], TRUE, rep, st, shuffle, <<>>)
         IN  [val |-> Lst(r.val), st |-> r.st]
    ELSE IF val.t = "str" THEN replaceLeaf(val.v, rep, st, shuffle)
    ELSE [val |-> val, st |-> st]

\* val is the new structure, st the substituter afterwards
replaceValues(obj, rep, st, shuffle) ==
    LET r == replaceValue(Obj(obj), rep, st, shuffle)
    IN  [val |-> r.val.v, st |-> r.st]

\* does the traversal of val meet a NAME#UNIQ whose permutation is not made yet
RECURSIVE MakesPermutation(_, _)
MakesPermutation(val, st) ==
    IF val.t \in {"obj", "list"}
    THEN \E k \in DOMAIN val.v : MakesPermutation(val.v[k], st)
    ELSE /\ val.t = "str"
         /\ val.v \in DOMAIN UniqRefs
         /\ UniqRefs[val.v] \notin DOMAIN st

\* the permutations the random source may yield in one replaceValues; when none
\* is made, one representative is taken
Shuffles(obj, st) ==
    IF MakesPermutation(Obj(obj), st) THEN Perms(MaxStim) ELSE { [i \in 1..MaxStim |-> i] }

(***************************************************************************)
(* resolveFrame(frameId, thisFrame)[0], line 414: the callback is outside  *)
(* the randomizer; it returns a list of n frames made from the template    *)
(* (or throws, which is a separate outcome of the loop step).              *)
(***************************************************************************)
resolveFrame(iFrameArg, template, n) ==
    [j \in 1..n |-> [from |-> iFrameArg, part |-> j - 1, frame |-> template]]

(***************************************************************************)
(* State.                                                                  *)
(***************************************************************************)
VARIABLES
    frameConfig,        \* the frameConfig object the caller holds and passes to every call
    config0,            \* frameConfig as it was when the current call started
    givenConfig,        \* frameConfig as the caller made it, before the first call
    pc,                 \* "idle", "selected", "expand", "done" or "failed"
    error,              \* "none", or where the call threw: "draw" (line 386) or "callback" (line 414)
    birthday,           \* what child.get('birthday') did in this call, "unread" if it was not called
    childAgeMs,         \* childAgeDays * DayMs (line 369), [def |-> FALSE, ms |-> 0] if not computed
    rand,               \* the value Math.random() returned on line 164, times RandDen
    console,            \* the messages this call logged
    parameterSetIndex,  \* line 386
    parameterSet,       \* line 387
    iFrame,             \* the loop variable of line 394
    frames,             \* line 389
    resolveCalls,       \* the calls of resolveFrame this call made, in order
    substituter,        \* line 392: the permutation and cursor of every NAME#UNIQ met
    returned            \* the value the call returned, [some |-> FALSE, ...] if none

(***************************************************************************)
(* The route of mixins/frame-player-route.js.  Records of the store are    *)
(* referred to by kind and id; null and undefined are references too.      *)
(***************************************************************************)
Ref(kind, id) == [kind |-> kind, id |-> id]
Null == Ref("null", 0)
NoValue == Ref("undefined", 0)
StudyRecord(id) == Ref("study", id)
ChildRecord(id) == Ref("child", id)
\* the k-th record of type response of the store
ResponseRecord(k) == Ref("response", k)
Id(n) == Ref("id", n)

StudyIds == {1, 2}
ChildIds == {1, 2}

\* the dynamic segments of the URL
Params == { [study_id |-> Id(st), child_id |-> Id(c)] : st \in StudyIds, c \in ChildIds }

\* the injected session service
Sessions ==
    { [isAuthenticated |-> FALSE, childId |-> Null] }
      \cup { [isAuthenticated |-> TRUE, childId |-> Id(c)] : c \in ChildIds }

\* the responses the store holds before the route is entered
PriorResponses ==
    << [study |-> StudyRecord(1), child |-> ChildRecord(1), isNew |-> FALSE, by |-> 0] >>

\* a call of model() that has not been made yet
NotCalled ==
    [pc |-> "idle", params |-> [study_id |-> Null, child_id |-> Null], ran |-> <<>>,
     failed |-> "none", created |-> 0, promise |-> "none"]

\* no call of model() has run its last callback yet
NoLoad == [by |-> 0, loaded |-> <<>>, past |-> <<>>]

NoController == [set |-> FALSE, study |-> Null, child |-> Null, response |-> Null,
                 pastResponses |-> <<>>]

VARIABLES
    session,            \* line 5: the session service
    urls,               \* the URL parameters the route may be entered with
    _study,             \* line 6
    _child,             \* line 7
    _response,          \* line 8
    _pastResponses,     \* line 9
    store,              \* the records of type response of the store, in the order of creation
    findRecordCalls,    \* the calls of store.findRecord made so far
    transitions,        \* the calls of transitionTo made so far
    invocation,         \* per call of model(): its params, the position of its promise
                        \* chain (pc), the callbacks that ran, the step that failed, the
                        \* response it created and the state of the promise it returned
    lastLoad,           \* the latest run of the callback of lines 63-69: by which call,
                        \* what findAll gave it and what it left in _pastResponses
    controller          \* the controller after setupController

routeVars == << session, urls, _study, _child, _response, _pastResponses, store,
                findRecordCalls, transitions, invocation, lastLoad, controller >>

randomizerVars == << frameConfig, config0, givenConfig, pc, error, birthday, childAgeMs, rand, console,
           parameterSetIndex, parameterSet, iFrame, frames, resolveCalls, substituter,
           returned >>

vars == << randomizerVars, routeVars >>

\* lines 5-9: the route before the first call of model()
RouteInit(sessions, urlSets) ==
    /\ session \in sessions
    /\ urls \in urlSets
    /\ _study = Null
    /\ _child = Null
    /\ _response = Null
    /\ _pastResponses = <<>>
    /\ store = PriorResponses
    /\ findRecordCalls = {}
    /\ transitions = {}
    /\ invocation = [i \in 1..MaxInvocations |-> NotCalled]
    /\ lastLoad = NoLoad
    /\ controller = NoController

NoAge == [def |-> FALSE, ms |-> 0]
NoReturn == [some |-> FALSE, frames |-> <<>>, conditionNum |-> 0 - 1, parameterSet |-> EmptyObj]

InitWith(configs, sessions, urlSets) ==
    /\ RouteInit(sessions, urlSets)
    /\ frameConfig \in configs
    /\ config0 = frameConfig
    /\ givenConfig = frameConfig
    /\ pc = "idle"
    /\ error = "none"
    /\ birthday = "unread"
    /\ childAgeMs = NoAge
    /\ rand = 0
    /\ console = <<>>
    /\ parameterSetIndex = 0 - 1
    /\ parameterSet = EmptyObj
    /\ iFrame = 0
    /\ frames = <<>>
    /\ resolveCalls = <<>>
    /\ substituter = NewSubstituter
    /\ returned = NoReturn

Init == InitWith(FrameConfigs, Sessions, {Params})

\* does the call reach lines 357-381, where the child and the clock are read
ReadsChild(cfg) == HasOwnWeights(cfg) /\ FirstIsObject(cfg)

\* the child argument and the clock of a call: when the call reads neither, they
\* have no effect and one representative is taken
ChildInputs(cfg) == IF ReadsChild(cfg) THEN Children ELSE {[kind |-> "nochild", ms |-> 0]}
ClockTicks(cfg) == IF ReadsChild(cfg) THEN 0..MaxTick ELSE {0}

(***************************************************************************)
(* Lines 352-387 of randomizer: a call starts, resolves the weights,       *)
(* stores them in frameConfig and draws the parameter set.  A draw that    *)
(* returns undefined makes line 386 throw a TypeError.                     *)
(***************************************************************************)
SelectParameterSet ==
    /\ pc \in {"idle", "done", "failed"}
    /\ \E child \in ChildInputs(frameConfig), tick \in ClockTicks(frameConfig),
          rnd \in 0..(RandDen - 1) :
         LET res == ResolveWeights(frameConfig, child, NowBase, NowBase + tick)
             cfg == [frameConfig EXCEPT !.parameterSetWeights = res.psw]
             parameterData == getRandomElement(cfg.parameterSets, Some(cfg.parameterSetWeights.w), rnd)
             readsChild == ReadsChild(frameConfig)
         IN  /\ config0' = frameConfig
             /\ frameConfig' = cfg
             /\ console' = res.console
             /\ birthday' = IF readsChild THEN child.kind ELSE "unread"
             /\ childAgeMs' = IF readsChild
                              THEN [def |-> TRUE, ms |-> ChildAgeMs(child, NowBase, NowBase + tick)]
                              ELSE NoAge
             /\ rand' = rnd
             /\ IF parameterData.found
                THEN /\ pc' = "selected"
                     /\ error' = "none"
                     /\ parameterSetIndex' = parameterData.index
                     /\ parameterSet' = parameterData.elem
                ELSE /\ pc' = "failed"
                     /\ error' = "draw"
                     /\ parameterSetIndex' = 0 - 1
                     /\ parameterSet' = EmptyObj
    /\ iFrame' = 0
    /\ frames' = <<>>
    /\ resolveCalls' = <<>>
    /\ substituter' = NewSubstituter
    /\ returned' = NoReturn
    /\ UNCHANGED << givenConfig, routeVars >>

(***************************************************************************)
(* Lines 389-394: frames = [], a new Substituter, iFrame = 0.  The locals  *)
(* of the selection (childDOB, childAgeDays, randPos) are dead from here.  *)
(***************************************************************************)
BeginExpansion ==
    /\ pc = "selected"
    /\ pc' = "expand"
    /\ birthday' = "unread"
    /\ childAgeMs' = NoAge
    /\ rand' = 0
    /\ iFrame' = 0
    /\ frames' = <<>>
    /\ substituter' = NewSubstituter
    /\ UNCHANGED << frameConfig, config0, givenConfig, error, console, parameterSetIndex, parameterSet,
                    resolveCalls, returned,
                    routeVars >>

\* mutation of push: the new frames put in front of the list
unshift(list, items) == items \o list

\* frames.push(...thisFrame), line 415
push(list, items) == list \o items

\* thisFrame after lines 400-405
MergedFrame(cfg, i) == extend(extend(EmptyObj, cfg.commonFrameProperties), cfg.frameList[i + 1])

\* mutation of ExpandTemplate: a new Substituter is made in every iteration of
\* the loop instead of once on line 392
ExpandTemplateNewSubstituter ==
    /\ pc = "expand"
    /\ iFrame < Len(frameConfig.frameList)
    /\ LET merged == MergedFrame(frameConfig, iFrame)
       IN  \E n \in 0..MaxOut, shuffle \in Shuffles(merged, NewSubstituter) :
             LET replaced == replaceValues(merged, parameterSet, NewSubstituter, shuffle)
                 thisFrame == replaced.val
                 out == resolveFrame(iFrame, thisFrame, n)
             IN  /\ resolveCalls' = Append(resolveCalls,
                        [iFrame |-> iFrame, merged |-> merged, replacedWith |-> parameterSet,
                         template |-> thisFrame, threw |-> FALSE, out |-> out])
                 /\ substituter' = replaced.st
                 /\ frames' = push(frames, out)
    /\ iFrame' = iFrame + 1
    /\ UNCHANGED << frameConfig, config0, givenConfig, pc, error, birthday, childAgeMs, rand, console,
                    parameterSetIndex, parameterSet, returned,
                    routeVars >>

(***************************************************************************)
(* One iteration of the loop, lines 394-416, for which resolveFrame        *)
(* returns n frames.                                                       *)
(***************************************************************************)
ExpandTemplate ==
    /\ pc = "expand"
    /\ iFrame < Len(frameConfig.frameList)
    /\ LET merged == MergedFrame(frameConfig, iFrame)
       IN  \E n \in 0..MaxOut, shuffle \in Shuffles(merged, substituter) :
             LET replaced == replaceValues(merged, parameterSet, substituter, shuffle)
                 thisFrame == replaced.val
                 out == resolveFrame(iFrame, thisFrame, n)
             IN  /\ resolveCalls' = Append(resolveCalls,
                        [iFrame |-> iFrame, merged |-> merged, replacedWith |-> parameterSet,
                         template |-> thisFrame, threw |-> FALSE, out |-> out])
                 /\ substituter' = replaced.st
                 /\ frames' = push(frames, out)
    /\ iFrame' = iFrame + 1
    /\ UNCHANGED << frameConfig, config0, givenConfig, pc, error, birthday, childAgeMs, rand, console,
                    parameterSetIndex, parameterSet, returned,
                    routeVars >>

\* mutation of ExpandTemplateThrows: the exception of the callback is swallowed
\* and the loop goes on with the next template
ExpandTemplateThrowsSwallowed ==
    /\ pc = "expand"
    /\ iFrame < Len(frameConfig.frameList)
    /\ LET merged == MergedFrame(frameConfig, iFrame)
       IN  \E shuffle \in Shuffles(merged, substituter) :
             LET replaced == replaceValues(merged, parameterSet, substituter, shuffle)
             IN  /\ resolveCalls' = Append(resolveCalls,
                        [iFrame |-> iFrame, merged |-> merged, replacedWith |-> parameterSet,
                         template |-> replaced.val, threw |-> TRUE, out |-> <<>>])
                 /\ substituter' = replaced.st
    /\ iFrame' = iFrame + 1
    /\ UNCHANGED << frameConfig, config0, givenConfig, pc, error, birthday, childAgeMs, rand, console,
                    parameterSetIndex, parameterSet, frames, returned,
                    routeVars >>

(***************************************************************************)
(* One iteration of the loop in which resolveFrame throws (line 414): the  *)
(* exception leaves randomizer.                                            *)
(***************************************************************************)
ExpandTemplateThrows ==
    /\ pc = "expand"
    /\ iFrame < Len(frameConfig.frameList)
    /\ LET merged == MergedFrame(frameConfig, iFrame)
       IN  \E shuffle \in Shuffles(merged, substituter) :
             LET replaced == replaceValues(merged, parameterSet, substituter, shuffle)
             IN  /\ resolveCalls' = Append(resolveCalls,
                        [iFrame |-> iFrame, merged |-> merged, replacedWith |-> parameterSet,
                         template |-> replaced.val, threw |-> TRUE, out |-> <<>>])
                 /\ substituter' = replaced.st
    /\ pc' = "failed"
    /\ error' = "callback"
    /\ UNCHANGED << frameConfig, config0, givenConfig, birthday, childAgeMs, rand, console,
                    parameterSetIndex, parameterSet, iFrame, frames, returned,
                    routeVars >>

(***************************************************************************)
(* Line 426: the loop is over, the call returns the frames and the         *)
(* condition record.                                                       *)
(***************************************************************************)
Return ==
    /\ pc = "expand"
    /\ ~(iFrame < Len(frameConfig.frameList))
    /\ pc' = "done"
    /\ returned' = [some |-> TRUE, frames |-> frames,
                    conditionNum |-> parameterSetIndex, parameterSet |-> parameterSet]
    /\ UNCHANGED << frameConfig, config0, givenConfig, error, birthday, childAgeMs, rand, console,
                    parameterSetIndex, parameterSet, iFrame, frames, resolveCalls,
                    substituter,
                    routeVars >>

(***************************************************************************)
(* The promise chain of model(params), lines 41-75, one action per         *)
(* callback.  A callback runs when the promise it waits for is settled;    *)
(* the callbacks of different calls of model() interleave.                 *)
(***************************************************************************)
\* lines 22-27
sessionChildId == IF session.isAuthenticated THEN session.childId ELSE Null

Ran(i, callback) == [invocation EXCEPT ![i].ran = Append(@, callback)]

\* lines 41-45 and 10-12: model(params) is called and its first callback asks
\* the store for the study
model(i) ==
    /\ invocation[i].pc = "idle"
    /\ \A j \in 1..(i - 1) : invocation[j].pc # "idle"
    /\ \E params \in urls :
         /\ invocation' = [invocation EXCEPT ![i].params = params, ![i].pc = "findStudy",
                                             ![i].ran = <<"getStudy">>, ![i].promise = "pending"]
         /\ findRecordCalls' = findRecordCalls
                \cup {[type |-> "study", id |-> params.study_id, by |-> i]}
    /\ UNCHANGED << session, urls, _study, _child, _response, _pastResponses, store, transitions,
                    controller, lastLoad, randomizerVars >>

\* lines 46-49 and 13-21: the study is there; _study is set and _getChild either
\* asks the store for the child or transitions and returns undefined
StudyFound(i) ==
    /\ invocation[i].pc = "findStudy"
    /\ _study' = StudyRecord(invocation[i].params.study_id.id)
    /\ IF invocation[i].params.child_id = sessionChildId
       THEN /\ findRecordCalls' = findRecordCalls
                   \cup {[type |-> "child", id |-> invocation[i].params.child_id, by |-> i]}
            /\ invocation' = [Ran(i, "setStudy") EXCEPT ![i].pc = "findChild"]
            /\ UNCHANGED transitions
       ELSE /\ transitions' = transitions
                   \cup {[to |-> "page-not-found", by |-> i, from |-> "_getChild"]}
            /\ invocation' = [Ran(i, "setStudy") EXCEPT ![i].pc = "noChild"]
            /\ UNCHANGED findRecordCalls
    /\ UNCHANGED << session, urls, _child, _response, _pastResponses, store, controller,
                    lastLoad, randomizerVars >>

\* lines 50-52 and 29-40: the callback gets the child (undefined when _getChild
\* returned nothing), sets _child, creates a response from _study and _child and
\* starts saving it
ChildFound(i) ==
    /\ invocation[i].pc \in {"findChild", "noChild"}
    /\ LET child == IF invocation[i].pc = "findChild"
                    THEN ChildRecord(invocation[i].params.child_id.id)
                    ELSE NoValue
       IN  /\ _child' = child
           /\ store' = Append(store, [study |-> _study, child |-> child, isNew |-> TRUE, by |-> i])
    /\ invocation' = [Ran(i, "setChild") EXCEPT ![i].pc = "save", ![i].created = Len(store) + 1]
    /\ UNCHANGED << session, urls, _study, _response, _pastResponses, findRecordCalls, transitions,
                    controller, lastLoad, randomizerVars >>

\* lines 53-55: the response is saved; _response is set and all responses are
\* asked for
ResponseSaved(i) ==
    /\ invocation[i].pc = "save"
    /\ store' = [store EXCEPT ![invocation[i].created].isNew = FALSE]
    /\ _response' = ResponseRecord(invocation[i].created)
    /\ invocation' = [Ran(i, "setResponse") EXCEPT ![i].pc = "findAll"]
    /\ UNCHANGED << session, urls, _study, _child, _pastResponses, findRecordCalls, transitions,
                    controller, lastLoad, randomizerVars >>

\* the responses with the ids of the set ids, in the order of the store
RECURSIVE RecordArray(_, _)
RecordArray(ids, k) ==
    IF k = 0 THEN <<>>
    ELSE IF k \in ids THEN Append(RecordArray(ids, k - 1), ResponseRecord(k))
    ELSE RecordArray(ids, k - 1)

includes(array, item) == \E k \in 1..Len(array) : array[k] = item

\* lines 63-69: the responses are there (which of the store's records the
\* answer holds is up to the store); _pastResponses is set and _response is
\* added unless it is among them.  The promise of model() is fulfilled.
PastResponsesLoaded(i) ==
    /\ invocation[i].pc = "findAll"
    /\ \E ids \in SUBSET (1..Len(store)) :
         LET pastResponses == RecordArray(ids, Len(store))
             response == _response
             array == IF ~includes(pastResponses, response)
                      THEN Append(pastResponses, response)
                      ELSE pastResponses
         IN  /\ _pastResponses' = array
             /\ lastLoad' = [by |-> i, loaded |-> pastResponses, past |-> array]
             /\ invocation' = [Ran(i, "setPastResponses") EXCEPT
                                  ![i].pc = "settled", ![i].promise = "fulfilled"]
    /\ UNCHANGED << session, urls, _study, _child, _response, store, findRecordCalls, transitions,
                    controller, randomizerVars >>

\* the promise a callback returned (findRecord of the study or of the child,
\* save, findAll) is rejected: the chain is rejected up to the catch
AsyncStepFails(i) ==
    /\ invocation[i].pc \in {"findStudy", "findChild", "save", "findAll"}
    /\ invocation' = [invocation EXCEPT ![i].pc = "rejected", ![i].failed = invocation[i].pc]
    /\ UNCHANGED << session, urls, _study, _child, _response, _pastResponses, store, findRecordCalls,
                    transitions, controller, lastLoad, randomizerVars >>

\* mutation of Catch: the handler throws the error again
CatchRethrows(i) ==
    /\ invocation[i].pc = "rejected"
    /\ transitions' = transitions \cup {[to |-> "page-not-found", by |-> i, from |-> "catch"]}
    /\ invocation' = [Ran(i, "catch") EXCEPT ![i].pc = "settled", ![i].promise = "rejected"]
    /\ UNCHANGED << session, urls, _study, _child, _response, _pastResponses, store, findRecordCalls,
                    controller, lastLoad, randomizerVars >>

\* lines 70-74: the catch handler transitions and returns, which fulfils the
\* promise of model()
Catch(i) ==
    /\ invocation[i].pc = "rejected"
    /\ transitions' = transitions \cup {[to |-> "page-not-found", by |-> i, from |-> "catch"]}
    /\ invocation' = [Ran(i, "catch") EXCEPT ![i].pc = "settled", ![i].promise = "fulfilled"]
    /\ UNCHANGED << session, urls, _study, _child, _response, _pastResponses, store, findRecordCalls,
                    controller, lastLoad, randomizerVars >>

\* lines 76-82, called once model() has settled and no other call of it is
\* under way
setupController ==
    /\ \E i \in 1..MaxInvocations : invocation[i].pc = "settled"
    /\ \A i \in 1..MaxInvocations : invocation[i].pc \in {"idle", "settled"}
    /\ controller' = [set |-> TRUE, study |-> _study, child |-> _child, response |-> _response,
                      pastResponses |-> _pastResponses]
    /\ UNCHANGED << session, urls, _study, _child, _response, _pastResponses, store, findRecordCalls,
                    transitions, invocation, lastLoad, randomizerVars >>

NextRandomizer ==
    \/ SelectParameterSet
    \/ BeginExpansion
    \/ ExpandTemplate
    \/ ExpandTemplateThrows
    \/ Return

NextRoute ==
    \/ \E i \in 1..MaxInvocations :
         \/ model(i)
         \/ StudyFound(i)
         \/ ChildFound(i)
         \/ ResponseSaved(i)
         \/ PastResponsesLoaded(i)
         \/ AsyncStepFails(i)
         \/ Catch(i)
    \/ setupController

Next == NextRandomizer \/ NextRoute

Spec == Init /\ [][Next]_vars

\* one frameConfig and one session for the specifications that vary the other
OneConfig == { cfg \in DrawConfigs : Len(cfg.parameterSets) = 1 /\ cfg.parameterSetWeights = Absent }
OneSession == { [isAuthenticated |-> FALSE, childId |-> Null] }

\* the randomizer started from the configurations of the weighted draw, of the
\* age brackets, of the expansion loop and of the selector #UNIQ
SpecDraw == InitWith(DrawConfigs, OneSession, {Params}) /\ [][NextRandomizer]_vars
SpecAge == InitWith(AgeConfigs, OneSession, {Params}) /\ [][NextRandomizer]_vars
SpecExpand == InitWith(ExpandConfigs, OneSession, {Params}) /\ [][NextRandomizer]_vars
SpecUniq == InitWith(UniqConfigs, OneSession, {Params}) /\ [][NextRandomizer]_vars

\* the route, with every session and every URL
SpecRoute == InitWith(OneConfig, Sessions, {Params}) /\ [][NextRoute]_vars

\* the route entered again and again with one URL of the first study, the
\* session being anonymous or that of the first child
ReloadSessions == { s \in Sessions : s.childId \in {Null, Id(1)} }
ReloadUrls == { {params} : params \in { q \in Params : q.study_id = Id(1) } }

SpecRouteReload == InitWith(OneConfig, ReloadSessions, ReloadUrls) /\ [][NextRoute]_vars

TypeOK ==
    /\ pc \in {"idle", "selected", "expand", "done", "failed"}
    /\ error \in {"none", "draw", "callback"}
    /\ iFrame \in 0..Len(frameConfig.frameList)

(***************************************************************************)
(* Helpers of the properties.                                              *)
(***************************************************************************)
\* the call has passed the draw of line 385 (or thrown on line 386)
AfterDraw == pc \in {"selected", "expand", "done", "failed"}

\* the state right after lines 352-387, where the locals of the selection are live
JustDrawn == pc = "selected" \/ (pc = "failed" /\ error = "draw")

\* the flat weight list handed to getRandomElement by the current call
WeightsUsed == frameConfig.parameterSetWeights.w

\* w[1] + ... + w[k]
PrefixSum(w, k) == SumSeq(SubSeq(w, 1, k))

\* the message was logged by the current call
Logged(msg) == \E k \in 1..Len(console) : console[k] = msg

\* the concatenation of the outputs of the first k calls of resolveFrame
RECURSIVE OutputsUpTo(_)
OutputsUpTo(k) == IF k = 0 THEN <<>> ELSE OutputsUpTo(k - 1) \o resolveCalls[k].out

(***************************************************************************)
(* C1: after a complete call of the randomizer the input frameConfig is    *)
(* unchanged by value, its parameterSetWeights field included.             *)
(***************************************************************************)
C1_FrameConfigUnchanged ==
    pc = "done" => frameConfig = config0

(***************************************************************************)
(* C2: when every weight is zero the weighted draw raises an error and     *)
(* never returns an index.                                                 *)
(***************************************************************************)
C2_ZeroWeightsRaise ==
    (AfterDraw /\ Len(WeightsUsed) >= 1 /\ \A k \in 1..Len(WeightsUsed) : WeightsUsed[k] = 0)
        => (pc = "failed" /\ error = "draw")

(***************************************************************************)
(* C3: with weights of the length of parameterSets and at least one        *)
(* positive weight, the index drawn has a strictly positive weight, for    *)
(* every draw value: a parameter set of weight 0 is never selected.        *)
(***************************************************************************)
C3_ZeroWeightNeverSelected ==
    (pc = "selected"
       /\ Len(WeightsUsed) = Len(frameConfig.parameterSets)
       /\ \E k \in 1..Len(WeightsUsed) : WeightsUsed[k] > 0)
        => WeightsUsed[parameterSetIndex + 1] > 0

(***************************************************************************)
(* C4: given age-bracketed weights, the weights used for the draw are      *)
(* those of the first bracket, in list order, with                         *)
(* minAge <= childAgeDays <= maxAge; later matching brackets are ignored.  *)
(***************************************************************************)
C4_FirstBracketWins ==
    (JustDrawn /\ config0.parameterSetWeights.kind = "brackets")
        => /\ childAgeMs.def
           /\ \A j \in 1..Len(config0.parameterSetWeights.b) :
                LET b == config0.parameterSetWeights.b
                    Holds(i) == b[i].minAge * DayMs <= childAgeMs.ms
                                  /\ childAgeMs.ms <= b[i].maxAge * DayMs
                IN  (Holds(j) /\ \A i \in 1..(j - 1) : ~Holds(i))
                       => frameConfig.parameterSetWeights = Flat(b[j].weights)

\* a call where two brackets with different weights both contain the age
C4_Witness ==
    /\ pc = "selected"
    /\ config0.parameterSetWeights.kind = "brackets"
    /\ Len(config0.parameterSetWeights.b) = 2
    /\ \A i \in 1..2 : /\ config0.parameterSetWeights.b[i].minAge * DayMs <= childAgeMs.ms
                       /\ childAgeMs.ms <= config0.parameterSetWeights.b[i].maxAge * DayMs
    /\ config0.parameterSetWeights.b[1].weights # config0.parameterSetWeights.b[2].weights
    /\ childAgeMs.ms = DayMs
    /\ WeightsUsed = config0.parameterSetWeights.b[1].weights

(***************************************************************************)
(* C5: when the child's birth date is unavailable or not a valid date      *)
(* (no child, the accessor throws, or it returns undefined, null or NaN)   *)
(* the current time is used as the birth date, so the age is 0 days.       *)
(***************************************************************************)
C5_InvalidBirthdayIsAgeZero ==
    (JustDrawn /\ birthday \in InvalidBirthdays)
        => (childAgeMs.def /\ childAgeMs.ms = 0)

(***************************************************************************)
(* C6: when age-bracketed weights are given and no bracket contains the    *)
(* child's age, the draw uses weight 1 for every parameter set, the draw   *)
(* does not fail, and the call can only end by returning or by a failure   *)
(* of the resolveFrame callback.                                           *)
(***************************************************************************)
C6_NoBracketEqualWeights ==
    /\ (JustDrawn /\ config0.parameterSetWeights.kind = "brackets"
          /\ \A j \in 1..Len(config0.parameterSetWeights.b) :
               ~(/\ config0.parameterSetWeights.b[j].minAge * DayMs <= childAgeMs.ms
                 /\ childAgeMs.ms <= config0.parameterSetWeights.b[j].maxAge * DayMs))
         => /\ pc = "selected"
            /\ Logged(WarnNoRange)
            /\ Len(WeightsUsed) = Len(frameConfig.parameterSets)
            /\ \A k \in 1..Len(WeightsUsed) : WeightsUsed[k] = 1
    /\ (AfterDraw /\ Logged(WarnNoRange))
         => /\ Len(WeightsUsed) = Len(frameConfig.parameterSets)
            /\ \A k \in 1..Len(WeightsUsed) : WeightsUsed[k] = 1
            /\ error # "draw"
            /\ (pc = "failed" => error = "callback")

\* a call with brackets none of which contains the age has returned
C6_Witness ==
    /\ pc = "done"
    /\ returned.some
    /\ config0.parameterSetWeights.kind = "brackets"
    /\ Logged(WarnNoRange)
    /\ Len(frameConfig.parameterSets) = 2
    /\ WeightsUsed = <<1, 1>>

(***************************************************************************)
(* C7: when the flat weight list used for the draw has a length different  *)
(* from that of parameterSets, the call fails with an error for every draw *)
(* value and returns neither frames nor a condition record.                *)
(***************************************************************************)
C7_LengthMismatchFails ==
    (AfterDraw /\ Len(WeightsUsed) # Len(frameConfig.parameterSets))
        => (pc = "failed" /\ error = "draw" /\ ~returned.some)

(***************************************************************************)
(* C8: for non-negative weights of the length of the candidate list with a *)
(* positive sum and any draw in [0, sum), getRandomElement returns         *)
(* [i, candidates[i]] where i is a valid index and the smallest index      *)
(* whose inclusive running total of weights is >= the draw; it never       *)
(* falls through.  The draw is rand * sum / RandDen.                       *)
(***************************************************************************)
C8_SmallestRunningTotal ==
    (JustDrawn
       /\ Len(WeightsUsed) = Len(frameConfig.parameterSets)
       /\ (\A k \in 1..Len(WeightsUsed) : WeightsUsed[k] >= 0)
       /\ PrefixSum(WeightsUsed, Len(WeightsUsed)) > 0)
        => LET total == PrefixSum(WeightsUsed, Len(WeightsUsed))
           IN  /\ pc = "selected"
               /\ parameterSetIndex \in 0..(Len(frameConfig.parameterSets) - 1)
               /\ parameterSet = frameConfig.parameterSets[parameterSetIndex + 1]
               /\ PrefixSum(WeightsUsed, parameterSetIndex + 1) * RandDen >= rand * total
               /\ \A j \in 0..(parameterSetIndex - 1) :
                     PrefixSum(WeightsUsed, j + 1) * RandDen < rand * total

\* a draw that passes over the first candidate and lands exactly on a running total
C8_Witness ==
    /\ pc = "selected"
    /\ Len(frameConfig.parameterSets) = 2
    /\ WeightsUsed = <<1, 2>>
    /\ rand = 3
    /\ parameterSetIndex = 1

(***************************************************************************)
(* C9: every successful call returns a condition record whose conditionNum *)
(* is a valid index of parameterSets and whose parameterSet is             *)
(* parameterSets[conditionNum]; that parameter set is the one substituted  *)
(* into every template of the call.                                        *)
(***************************************************************************)
C9_ConditionRecord ==
    pc = "done"
        => /\ returned.some
           /\ returned.conditionNum \in 0..(Len(frameConfig.parameterSets) - 1)
           /\ returned.parameterSet = frameConfig.parameterSets[returned.conditionNum + 1]
           /\ \A k \in 1..Len(resolveCalls) :
                /\ resolveCalls[k].replacedWith = frameConfig.parameterSets[returned.conditionNum + 1]
                /\ resolveCalls[k].template =
                      replaceValues(resolveCalls[k].merged,
                                    frameConfig.parameterSets[returned.conditionNum + 1],
                                    NewSubstituter, [i \in 1..MaxStim |-> i]).val

\* a call that selected the second parameter set and expanded two templates has returned
C9_Witness ==
    /\ pc = "done"
    /\ returned.conditionNum = 1
    /\ Len(resolveCalls) = 2
    /\ returned.parameterSet["LEFTIMAGE"] = Str("dog.jpg")
    /\ resolveCalls[1].template["leftImage"] = Str("dog.jpg")

(***************************************************************************)
(* C10: in a successful call over n templates resolveFrame is invoked      *)
(* exactly n times, once per template and in frameList order, and the      *)
(* returned frames are the concatenation, in that order, of the lists the  *)
(* callback produced; at every moment the calls made so far are those of   *)
(* templates 0 .. iFrame - 1 in order.                                     *)
(***************************************************************************)
C10_OncePerTemplateInOrder ==
    /\ \A k \in 1..Len(resolveCalls) : resolveCalls[k].iFrame = k - 1
    /\ pc = "expand" => Len(resolveCalls) = iFrame /\ frames = OutputsUpTo(iFrame)
    /\ pc = "done"
         => /\ Len(resolveCalls) = Len(frameConfig.frameList)
            /\ \A k \in 1..Len(resolveCalls) :
                 /\ ~resolveCalls[k].threw
                 /\ resolveCalls[k].merged = MergedFrame(frameConfig, k - 1)
            /\ returned.frames = OutputsUpTo(Len(resolveCalls))
            /\ Len(returned.frames) =
                  SumSeq([k \in 1..Len(resolveCalls) |-> Len(resolveCalls[k].out)])

\* a call over two templates whose callback outputs have lengths 2 and 1 has returned
C10_Witness ==
    /\ pc = "done"
    /\ Len(frameConfig.frameList) = 2
    /\ Len(resolveCalls) = 2
    /\ Len(resolveCalls[1].out) = 2
    /\ Len(resolveCalls[2].out) = 1
    /\ Len(returned.frames) = 3

(***************************************************************************)
(* C11: if the resolveFrame callback fails on template i the expansion     *)
(* aborts: the failing call is the last call of resolveFrame, no template  *)
(* after i is merged, substituted or passed to the callback, and the call  *)
(* returns neither frames nor a condition record; the calls made for the   *)
(* templates before i stay made, with the frames they produced.            *)
(***************************************************************************)
C11_CallbackFailureAborts ==
    /\ \A k \in 1..Len(resolveCalls) :
         resolveCalls[k].threw
           => /\ pc = "failed"
              /\ error = "callback"
              /\ k = Len(resolveCalls)
              /\ resolveCalls[k].iFrame = iFrame
              /\ ~returned.some
    /\ (pc = "failed" /\ error = "callback")
         => /\ Len(resolveCalls) = iFrame + 1
            /\ resolveCalls[iFrame + 1].threw
            /\ \A k \in 1..iFrame : ~resolveCalls[k].threw /\ resolveCalls[k].iFrame = k - 1
            /\ frames = OutputsUpTo(iFrame)
            /\ ~returned.some

\* the callback produced two frames for the first template and failed on the
\* second and last one
C11_Witness ==
    /\ pc = "failed"
    /\ error = "callback"
    /\ Len(frameConfig.frameList) = 2
    /\ Len(resolveCalls) = 2
    /\ resolveCalls[2].threw
    /\ Len(frames) = 2
    /\ ~returned.some

(***************************************************************************)
(* C13: the template handed to substitution for frame i is the deep merge  *)
(* of commonFrameProperties (base) and frameList[i] (override): at every   *)
(* nesting depth a key of both takes the value of frameList[i], a key of   *)
(* commonFrameProperties only keeps the common value and a key of          *)
(* frameList[i] only keeps the frame's value.                              *)
(***************************************************************************)
\* m is the deep merge of the base c and the override f
RECURSIVE IsDeepMerge(_, _, _)
IsDeepMerge(m, c, f) ==
    /\ DOMAIN m = (DOMAIN c) \cup (DOMAIN f)
    /\ \A k \in DOMAIN m :
         IF k \notin DOMAIN f THEN m[k] = c[k]
         ELSE IF k \notin DOMAIN c THEN m[k] = f[k]
         ELSE IF f[k].t \in {"obj", "list"} /\ c[k].t = f[k].t
              THEN m[k].t = f[k].t /\ IsDeepMerge(m[k].v, c[k].v, f[k].v)
              ELSE m[k] = f[k]

C13_DeepMerge ==
    \A k \in 1..Len(resolveCalls) :
        IsDeepMerge(resolveCalls[k].merged,
                    frameConfig.commonFrameProperties,
                    frameConfig.frameList[resolveCalls[k].iFrame + 1])

\* the second template, which overrides kind, the first audio type and, two levels
\* down, one key of parentTextBlock.css, has been merged with the common properties
C13_Witness ==
    /\ Len(resolveCalls) = 2
    /\ DOMAIN frameConfig.commonFrameProperties # {}
    /\ resolveCalls[2].merged["kind"] = Str("B")
    /\ resolveCalls[2].merged["size"] = Str("IMAGESIZE")
    /\ resolveCalls[2].merged["audioTypes"] = Lst(<<Str("wav"), Str("ogg")>>)
    /\ resolveCalls[2].merged["parentTextBlock"].v["title"] = Str("Parents!")
    /\ resolveCalls[2].merged["parentTextBlock"].v["text"] = Str("LEFTIMAGE")
    /\ resolveCalls[2].merged["parentTextBlock"].v["css"].v["color"] = Str("blue")
    /\ resolveCalls[2].merged["parentTextBlock"].v["css"].v["font"] = Str("big")

(***************************************************************************)
(* C12: within one call the occurrences of NAME#UNIQ, counted in order     *)
(* across all templates of the frameList, are replaced by consecutive      *)
(* elements of one permutation of NAME's list that is fixed for the whole  *)
(* call: the first len(list) occurrences receive pairwise distinct         *)
(* positions of that permutation, and occurrence len(list) + 1 wraps       *)
(* around and receives the same element as occurrence 1.                   *)
(***************************************************************************)
\* the values that took the place of the leaves STIMLIST#UNIQ of the template m
\* in the substituted template r, in the order of the traversal
RECURSIVE UniqValues(_, _), UniqValuesEach(_, _, _)
UniqValuesEach(m, r, keys) ==
    IF keys = <<>> THEN <<>>
    ELSE UniqValues(m[Head(keys)], r[Head(keys)]) \o UniqValuesEach(m, r, Tail(keys))

UniqValues(m, r) ==
    IF m.t = "obj" THEN UniqValuesEach(m.v, r.v, OrderedKeys(m.v))
    ELSE IF m.t = "list" THEN UniqValuesEach(m.v, r.v, [i \in 1..Len(m.v) |-> i])
    ELSE IF m = Str("STIMLIST#UNIQ") THEN <<r>>
    ELSE <<>>

\* the same, over the first k calls of resolveFrame of the current call
RECURSIVE UniqOccurrences(_)
UniqOccurrences(k) ==
    IF k = 0 THEN <<>>
    ELSE UniqOccurrences(k - 1)
           \o UniqValues(Obj(resolveCalls[k].merged), Obj(resolveCalls[k].template))

C12_UniqOnePermutation ==
    LET occ == UniqOccurrences(Len(resolveCalls))
        list == parameterSet["STIMLIST"].v
        n == Len(list)
    IN  Len(occ) > 0
          => /\ \E p \in Perms(n) :
                  \A j \in 1..Len(occ) : occ[j] = list[p[((j - 1) % n) + 1]]
             /\ \A i, j \in 1..Len(occ) : (i < j /\ j <= n) => occ[i] # occ[j]
             /\ Len(occ) > n => occ[n + 1] = occ[1]

\* a complete call met STIMLIST#UNIQ more often than the list is long, in two
\* templates, with a permutation that is not the order of the list
C12_Witness ==
    LET occ == UniqOccurrences(Len(resolveCalls))
    IN  /\ pc = "done"
        /\ Len(resolveCalls) = 2
        /\ Len(occ) > Len(parameterSet["STIMLIST"].v)
        /\ occ[1] = parameterSet["STIMLIST"].v[2]
        /\ occ[Len(parameterSet["STIMLIST"].v) + 1] = occ[1]

(***************************************************************************)
(* C14: for any sequence of calls made with the same frameConfig object    *)
(* whose parameterSetWeights is a list of age brackets, every call (not    *)
(* only the first) selects its weights from the bracket matching the age   *)
(* of the child passed to that call.                                       *)
(***************************************************************************)
C14_EveryCallUsesItsChildsBracket ==
    (JustDrawn /\ givenConfig.parameterSetWeights.kind = "brackets")
        => /\ childAgeMs.def
           /\ \A j \in 1..Len(givenConfig.parameterSetWeights.b) :
                LET b == givenConfig.parameterSetWeights.b
                    Holds(i) == b[i].minAge * DayMs <= childAgeMs.ms
                                  /\ childAgeMs.ms <= b[i].maxAge * DayMs
                IN  (Holds(j) /\ \A i \in 1..(j - 1) : ~Holds(i))
                       => WeightsUsed = b[j].weights

(***************************************************************************)
(* Helpers of the properties of the route.                                 *)
(***************************************************************************)
Called(i) == invocation[i].pc # "idle"

\* the child id of the URL of call i is the one of the session
ChildMatches(i) == invocation[i].params.child_id = sessionChildId

\* the callbacks of the chain that have run when the given step fails
RanBefore(step) ==
    IF step = "findStudy" THEN <<"getStudy">>
    ELSE IF step = "findChild" THEN <<"getStudy", "setStudy">>
    ELSE IF step = "save" THEN <<"getStudy", "setStudy", "setChild">>
    ELSE <<"getStudy", "setStudy", "setChild", "setResponse">>

(***************************************************************************)
(* C15: if the child id of the URL does not match the child id of the      *)
(* session, no child record is looked up and no response record is created *)
(* or saved for that visit; the only effect is the transition to           *)
(* page-not-found.                                                         *)
(***************************************************************************)
C15_MismatchOnlyTransitions ==
    \A i \in 1..MaxInvocations :
        (Called(i) /\ ~ChildMatches(i))
            => /\ \A c \in findRecordCalls : ~(c.by = i /\ c.type = "child")
               /\ \A k \in 1..Len(store) : store[k].by # i

(***************************************************************************)
(* C16: when calls of model() overlap, the response created by each call   *)
(* is associated with the study and the child that the same call loaded,   *)
(* never with those stored by the other call.                              *)
(***************************************************************************)
C16_ResponseOfOwnStudyAndChild ==
    \A k \in 1..Len(store) :
        store[k].by # 0
            => LET i == store[k].by
               IN  /\ store[k].study = StudyRecord(invocation[i].params.study_id.id)
                   /\ store[k].child = IF ChildMatches(i)
                                       THEN ChildRecord(invocation[i].params.child_id.id)
                                       ELSE NoValue

(***************************************************************************)
(* C17: if a step of the chain fails (study lookup, child lookup, saving   *)
(* the response, loading the past responses), none of the later callbacks  *)
(* of the chain runs, the route transitions to page-not-found, and the     *)
(* promise returned by model() is fulfilled, not rejected.                 *)
(***************************************************************************)
C17_FailureGoesToCatch ==
    \A i \in 1..MaxInvocations :
        invocation[i].failed # "none"
            => \/ /\ invocation[i].pc = "rejected"
                  /\ invocation[i].ran = RanBefore(invocation[i].failed)
                  /\ invocation[i].promise = "pending"
               \/ /\ invocation[i].pc = "settled"
                  /\ invocation[i].ran = Append(RanBefore(invocation[i].failed), "catch")
                  /\ [to |-> "page-not-found", by |-> i, from |-> "catch"] \in transitions
                  /\ invocation[i].promise = "fulfilled"

\* two overlapping calls, one failed when saving and one when loading the past
\* responses, have both settled
C17_Witness ==
    /\ invocation[1].failed = "save" /\ invocation[1].pc = "settled"
    /\ invocation[1].promise = "fulfilled"
    /\ invocation[2].failed = "findAll" /\ invocation[2].pc = "settled"
    /\ invocation[2].ran = <<"getStudy", "setStudy", "setChild", "setResponse", "catch">>
    /\ store[invocation[2].created].isNew = FALSE
    /\ store[invocation[1].created].isNew

(***************************************************************************)
(* C18: whenever the model hook completes without error, _pastResponses    *)
(* contains the response created by that call, and the hook never adds a   *)
(* second copy: if the loaded responses include it, it is not pushed       *)
(* again, otherwise it is appended once at the end.                        *)
(***************************************************************************)
C18_OwnResponseOnceInPast ==
    lastLoad.by # 0
        => LET own == ResponseRecord(invocation[lastLoad.by].created)
           IN  /\ includes(lastLoad.past, own)
               /\ lastLoad.past = IF includes(lastLoad.loaded, own)
                                  THEN lastLoad.loaded
                                  ELSE Append(lastLoad.loaded, own)

====
